---- MODULE Spec2Model ----
(***************************************************************************)
(* Model of the geo-job-platform backend: the job controller (createJob,   *)
(* getAllJobs, updateJob, deleteJob, applyForJob), the admin controller    *)
(* (updateJob, deleteJob, deleteEmployer), the Job and Application schemas *)
(* and the route gates in front of them.                                   *)
(*                                                                         *)
(* The database is the state: the users, jobs and applications             *)
(* collections.  Every request handler is one action, except applyForJob,  *)
(* which is split at its awaits (Job.findById, Application.findOne,        *)
(* newApplication.save) because other requests run between them.           *)
(* Every finished request leaves its response in res.                      *)
(*                                                                         *)
(* Record constructors list their fields in the order TLC keeps them (by   *)
(* first occurrence of the name in the module), so that no record value    *)
(* is rearranged after it has been built.                                  *)
(***************************************************************************)
EXTENDS Integers, Sequences, FiniteSets, Bags, TLC

VARIABLES users, jobs, nextJobId, applications, ratings, inflight, now, res

vars == <<users, jobs, nextJobId, applications, ratings, inflight, now, res>>

-----------------------------------------------------------------------------
(* Bounds of the model *)

MaxJobs == 1
MaxReqs == 2
MaxTime == 2
MaxRatings == 2

-----------------------------------------------------------------------------
(* Values *)

\* a field that is absent from a request (JavaScript undefined)
Undef == "undefined"

\* req.user after User.findById found no document
Null == "null"

\* a location without a usable coordinates pair (absent, null or []), stored
\* or in a request body
NoCoords == <<>>

\* a numeric request field that is absent
NoNumber == -1

\* an empty string in a numeric field, which Mongoose casts to null
EmptyNumber == -2

Employers == {"e1", "e2"}
Laborers == {"l1", "l2"}
Admins == {"a1"}
AllUsers == Employers \cup Laborers \cup Admins

user_type(u) ==
    IF u \in Employers THEN "employer"
    ELSE IF u \in Laborers THEN "laborer"
    ELSE "admin"

JobTypeEnum == {"Full-time", "Part-time", "Contract", "Temporary", "Seasonal"}
JobStatusEnum == {"Active", "Filled", "Closed"}

\* JavaScript truthiness of a request field (a string or undefined)
Truthy(v) == v # Undef /\ v # ""

\* !n is false for a number other than 0; undefined and '' are falsy
TruthyNumber(n) == n # NoNumber /\ n # EmptyNumber /\ n # 0

\* the schema option trim: true, over the strings of the model
Trim(s) ==
    CASE s = " Springfield " -> "Springfield"
      [] OTHER -> s

\* an id as a request carries it: a string. Mongoose casts a string of 24
\* hexadecimal digits of either case to an ObjectId, whose toString() is the
\* lower-case form; every other string is rejected with a CastError.
\* "L1" and "E1" are the ids of l1 and e1 written in upper case, "e9" is a
\* well-formed id that no user has.
castObjectId(s) ==
    CASE s = "L1" -> "l1"
      [] s = "E1" -> "e1"
      [] OTHER -> s

-----------------------------------------------------------------------------
(* Error middleware: a handler that throws after res.status(c) answers c,  *)
(* a throw with the status still at its default 200 answers 500.           *)

errorHandler(statusCode) == IF statusCode = 200 THEN 500 ELSE statusCode

\* what a finished request leaves behind: the response (status, message, total,
\* items) and, for the properties, what was asked (op, user, job, body, resume)
\* and what happened (geo: what the geocoder did, "none" when it was not
\* called; created: a document was inserted; unlinked: the handler deleted
\* the files uploaded with the request)
Response(op, u, id, status, message) ==
    [op |-> op, status |-> status, message |-> message, user |-> u, job |-> id,
     geo |-> "none", body |-> <<>>, resume |-> FALSE, created |-> FALSE,
     total |-> 0, items |-> <<>>, hasApplied |-> FALSE, unlinked |-> FALSE]

NoResponse == Response("none", Undef, 0, 0, "")

\* authorizeRoles(...roles): 403 unless req.user is set and has one of the roles
authorizeRoles_anyone(roles, u) == TRUE

authorizeRoles(roles, u) == u \notin {Undef, Null} /\ user_type(u) \in roles

Forbidden(op, u, id) ==
    Response(op, u, id, 403, "Forbidden: You do not have permission to access this resource.")

\* the Authorization header of a request: absent, of another scheme, or
\* 'Bearer' followed by no token, by a string that jwt.verify rejects, or by a
\* token signed for the user _id
NoToken == [kind |-> "none", _id |-> Undef]
BadToken == [kind |-> "bad", _id |-> Undef]
SignedToken(u) == [kind |-> "signed", _id |-> u]

NoHeader == [scheme |-> "none", token |-> NoToken]
BasicHeader == [scheme |-> "Basic", token |-> BadToken]
Bearer(token) == [scheme |-> "Bearer", token |-> token]

\* protect: what the middleware does with one request. next counts the calls
\* of next(), sent lists the responses it sends, in order (a second send
\* throws ERR_HTTP_HEADERS_SENT in the async middleware, where nothing
\* catches it)
protect(us, header) ==
    LET asked == [Response("protect", Undef, 0, 0, "") EXCEPT
                     !.body = [header |-> header, next |-> 0, sent |-> <<>>]]
        noToken == [status |-> 401, message |-> "Not authorized, no token"]
        failed == [status |-> 401, message |-> "Not authorized, token failed"]
    IN IF header.scheme = "Bearer"
       THEN IF header.token.kind = "signed"
            THEN [asked EXCEPT
                     !.user = IF header.token._id \in us THEN header.token._id ELSE Null,
                     !.body.next = 1]
            ELSE [asked EXCEPT
                     !.status = 401, !.message = failed.message,
                     !.body.sent = IF header.token.kind = "none"
                                   THEN <<failed, noToken>> ELSE <<failed>>]
       ELSE [asked EXCEPT !.status = 401, !.message = noToken.message,
                          !.body.sent = <<noToken>>]

-----------------------------------------------------------------------------
(* The geocoder: an external service.  A call throws, finds nothing, or    *)
(* returns a first match.                                                  *)

GeoThrow == [kind |-> "throw"]
GeoEmpty == [kind |-> "empty"]

GeoMatch(lon, lat, fa, c, k) ==
    [kind |-> "ok", longitude |-> lon, latitude |-> lat,
     formattedAddress |-> fa, city |-> c, country |-> k]

GeoMatches(city) ==
    IF Trim(city) = "Springfield"
    THEN {GeoMatch(10, 20, "Springfield, IL, USA", "Springfield", "USA"),
          GeoMatch(10, 20, Undef, "Springfield", "USA")}
    ELSE IF city = "Shelbyville"
    THEN {GeoMatch(30, 40, Undef, Undef, Undef)}
    ELSE {}

geocode(city) == {GeoThrow, GeoEmpty} \cup GeoMatches(city)

\* what the geocoder may do on a request: nothing is asked of it without a city
GeocodeOutcomes(city) == IF Truthy(city) THEN geocode(city) ELSE {GeoThrow}

\* the template string `${city}, ${country}`
CityCountry(c, k) ==
    CASE c = "Springfield" /\ k = "USA" -> "Springfield, USA"
      [] c = "Shelbyville" /\ k = "USA" -> "Shelbyville, USA"
      [] OTHER -> "?, ?"

\* formattedAddress, else "city, country", else the given default
FormatAddress(g, default) ==
    IF Truthy(g.formattedAddress) THEN g.formattedAddress
    ELSE IF Truthy(g.city) /\ Truthy(g.country) THEN CityCountry(g.city, g.country)
    ELSE default

-----------------------------------------------------------------------------
(* The jobs collection *)

JobExists(js, id) == \E j \in js : j._id = id

findById(js, id) == CHOOSE j \in js : j._id = id

\* Job schema validation on create and save
JobValid(j) ==
    /\ j.job_type \in JobTypeEnum
    /\ j.status \in JobStatusEnum
    /\ Truthy(j.title)
    /\ Truthy(j.city)
    /\ j.pay_rate_min # EmptyNumber /\ j.pay_rate_min >= 0
    /\ j.pay_rate_max # EmptyNumber /\ j.pay_rate_max >= 0

\* required_skills.split(',').map(s => s.trim()), over the strings of the model
SplitSkills(s) ==
    CASE s = "welding" -> {"welding"}
      [] s = "welding, driving" -> {"welding", "driving"}
      [] OTHER -> {s}

\* the document createJob hands to Job.create: the geocoder's first match,
\* or the [0, 0] default with the input city as address
newJob_noDefault(id, t, u, body, g) ==
    [status |-> "Active", _id |-> id, city |-> Trim(body.city),
     job_type |-> body.job_type, title |-> Trim(body.title),
     pay_rate_min |-> body.pay_rate_min, pay_rate_max |-> body.pay_rate_max,
     employer_id |-> u,
     location |->
         [coordinates |-> IF g.kind = "ok" THEN <<g.longitude, g.latitude>>
                                           ELSE NoCoords,
          address_text |-> Trim(IF g.kind = "ok" THEN FormatAddress(g, body.city)
                                                 ELSE body.city)],
     required_skills |-> IF Truthy(body.required_skills)
                         THEN SplitSkills(body.required_skills) ELSE {},
     posted_at |-> t]

newJob(id, t, u, body, g) ==
    [status |-> "Active", _id |-> id, city |-> Trim(body.city),
     job_type |-> body.job_type, title |-> Trim(body.title),
     pay_rate_min |-> body.pay_rate_min, pay_rate_max |-> body.pay_rate_max,
     employer_id |-> u,
     location |->
         [coordinates |-> IF g.kind = "ok" THEN <<g.longitude, g.latitude>>
                                           ELSE <<0, 0>>,
          address_text |-> Trim(IF g.kind = "ok" THEN FormatAddress(g, body.city)
                                                 ELSE body.city)],
     required_skills |-> IF Truthy(body.required_skills)
                         THEN SplitSkills(body.required_skills) ELSE {},
     posted_at |-> t]

\* createJob of the job controller, behind protect and
\* authorizeRoles('employer', 'admin'); g is what the geocoder does when called
createJob(js, id, t, u, body, g) ==
    LET asked == [Response("createJob", u, 0, 0, "") EXCEPT !.body = body] IN
    IF ~authorizeRoles({"employer", "admin"}, u)
    THEN [jobs |-> js, res |-> [Forbidden("createJob", u, 0) EXCEPT !.body = body]]
    ELSE IF ~(Truthy(body.title) /\ Truthy(body.job_type) /\ Truthy(body.city)
              /\ TruthyNumber(body.pay_rate_min) /\ TruthyNumber(body.pay_rate_max))
    THEN [jobs |-> js,
          res |-> [asked EXCEPT !.status = 400,
                                !.message = "Please fill in all required job fields"]]
    ELSE
      LET job == newJob(id, t, u, body, g) IN
      IF JobValid(job)
      THEN [jobs |-> js \cup {job},
            res |-> [asked EXCEPT !.job = id, !.geo = g.kind, !.status = 201,
                                  !.created = TRUE]]
      ELSE [jobs |-> js,
            res |-> [asked EXCEPT !.geo = g.kind, !.status = errorHandler(200),
                                  !.message = "Job validation failed"]]

\* createJob of the strict revisions: a geocoder call that throws, or that
\* returns no match (the 400 set for it is thrown inside the same try and
\* overwritten by the catch), ends the request before Job.create
strictCreateJob_defaults(js, id, t, u, body, g) == createJob(js, id, t, u, body, g)

strictCreateJob(js, id, t, u, body, g) ==
    LET asked == [Response("createJob", u, 0, 0, "") EXCEPT !.body = body] IN
    IF ~authorizeRoles({"employer", "admin"}, u)
    THEN [jobs |-> js, res |-> [Forbidden("createJob", u, 0) EXCEPT !.body = body]]
    ELSE IF ~(Truthy(body.title) /\ Truthy(body.job_type) /\ Truthy(body.city)
              /\ TruthyNumber(body.pay_rate_min) /\ TruthyNumber(body.pay_rate_max))
    THEN [jobs |-> js,
          res |-> [asked EXCEPT !.status = 400,
                                !.message = "Please fill in all required job fields"]]
    ELSE IF g.kind # "ok"
    THEN [jobs |-> js,
          res |-> [asked EXCEPT !.geo = g.kind, !.status = errorHandler(500),
                                !.message = "Error processing job location."]]
    ELSE
      LET job == newJob(id, t, u, body, g) IN
      IF JobValid(job)
      THEN [jobs |-> js \cup {job},
            res |-> [asked EXCEPT !.job = id, !.geo = g.kind, !.status = 201,
                                  !.created = TRUE]]
      ELSE [jobs |-> js,
            res |-> [asked EXCEPT !.geo = g.kind, !.status = errorHandler(200),
                                  !.message = "Job validation failed"]]

\* updateJob asks the geocoder only for a non-empty city that differs from the
\* stored one
regeocode_always(body, job) == Truthy(body.city)

regeocode(body, job) == Truthy(body.city) /\ body.city # job.city

\* updateJob of the job controller (PUT /jobs/:id), behind protect and
\* authorizeRoles('employer', 'admin'); g is what the geocoder does if called,
\* saveOk whether save() accepts a document that has no coordinates pair
updateJob(js, u, id, body, g, saveOk) ==
    IF ~authorizeRoles({"employer", "admin"}, u)
    THEN [jobs |-> js, res |-> [Forbidden("updateJob", u, id) EXCEPT !.body = body]]
    ELSE IF ~JobExists(js, id)
    THEN [jobs |-> js,
          res |-> [Response("updateJob", u, id, 404, "Job not found") EXCEPT !.body = body]]
    ELSE
      LET job == findById(js, id) IN
      IF user_type(u) # "admin" /\ job.employer_id # u
      THEN [jobs |-> js,
            res |-> [Response("updateJob", u, id, 403, "Not authorized to update this job")
                        EXCEPT !.body = body]]
      ELSE
        LET asksGeocoder == regeocode(body, job)
            oldAddress == IF Truthy(job.location.address_text)
                          THEN job.location.address_text ELSE job.city
            updatedLocation ==
                IF asksGeocoder /\ g.kind = "ok"
                THEN [coordinates |-> <<g.longitude, g.latitude>>,
                      address_text |-> Trim(FormatAddress(g, oldAddress))]
                ELSE job.location
            merged == [job EXCEPT
                !.title = IF Truthy(body.title) THEN Trim(body.title) ELSE @,
                !.job_type = IF Truthy(body.job_type) THEN body.job_type ELSE @,
                !.city = IF Truthy(body.city) THEN Trim(body.city) ELSE @,
                !.location = updatedLocation,
                !.pay_rate_min = IF body.pay_rate_min # NoNumber THEN body.pay_rate_min ELSE @,
                !.pay_rate_max = IF body.pay_rate_max # NoNumber THEN body.pay_rate_max ELSE @,
                !.required_skills = IF Truthy(body.required_skills)
                                    THEN SplitSkills(body.required_skills) ELSE @,
                !.status = IF Truthy(body.status) THEN body.status ELSE @]
            sent == [Response("updateJob", u, id, 0, "") EXCEPT
                !.geo = IF asksGeocoder THEN g.kind ELSE "none", !.body = body]
        IN IF JobValid(merged) /\ (merged.location.coordinates # NoCoords \/ saveOk)
           THEN [jobs |-> (js \ {job}) \cup {merged}, res |-> [sent EXCEPT !.status = 200]]
           ELSE [jobs |-> js,
                 res |-> [sent EXCEPT !.status = errorHandler(200),
                                      !.message = "Job validation failed"]]

\* updateJob of the strict revisions: a geocoder call that throws, or that
\* returns no match (the 400 and its message are thrown inside the same try
\* and replaced by the catch), ends the request before job.save
strictUpdateJob(js, u, id, body, g, saveOk) ==
    LET r == updateJob(js, u, id, body, g, saveOk) IN
    IF r.res.geo \in {"throw", "empty"}
    THEN [jobs |-> js,
          res |-> [r.res EXCEPT !.status = errorHandler(500),
                                !.message = "Error updating job location."]]
    ELSE r

\* deleteJob of the job controller (DELETE /jobs/:id), behind the same gate
deleteJob_noOwnerCheck(js, u, id) ==
    IF ~authorizeRoles({"employer", "admin"}, u)
    THEN [jobs |-> js, res |-> Forbidden("deleteJob", u, id)]
    ELSE IF ~JobExists(js, id)
    THEN [jobs |-> js, res |-> Response("deleteJob", u, id, 404, "Job not found")]
    ELSE [jobs |-> js \ {findById(js, id)},
          res |-> Response("deleteJob", u, id, 200, "Job removed successfully")]

deleteJob(js, u, id) ==
    IF ~authorizeRoles({"employer", "admin"}, u)
    THEN [jobs |-> js, res |-> Forbidden("deleteJob", u, id)]
    ELSE IF ~JobExists(js, id)
    THEN [jobs |-> js, res |-> Response("deleteJob", u, id, 404, "Job not found")]
    ELSE
      LET job == findById(js, id) IN
      IF user_type(u) # "admin" /\ job.employer_id # u
      THEN [jobs |-> js,
            res |-> Response("deleteJob", u, id, 403, "Not authorized to delete this job")]
      ELSE [jobs |-> js \ {job},
            res |-> Response("deleteJob", u, id, 200, "Job removed successfully")]

\* updateJob of the admin controller (PUT /admin/jobs/:id), behind protect and
\* authorizeRoles('admin'): $set of the given fields; the location is replaced
\* whole as soon as city or address_text is given
adminUpdateJob_setsBody(js, u, id, body) ==
    IF ~authorizeRoles({"admin"}, u)
    THEN [jobs |-> js, res |-> Forbidden("adminUpdateJob", u, id)]
    ELSE IF ~JobExists(js, id)
    THEN [jobs |-> js, res |-> Response("adminUpdateJob", u, id, 404, "Job not found")]
    ELSE
      LET job == findById(js, id)
          location == [coordinates |-> body.coordinates,
                       address_text |-> IF body.address_text # Undef
                                        THEN Trim(body.address_text) ELSE Undef]
          updated == [job EXCEPT
              !.title = IF body.title # Undef THEN Trim(body.title) ELSE @,
              !.status = IF body.status # Undef THEN body.status ELSE @,
              !.employer_id = IF "employer_id" \in DOMAIN body THEN body.employer_id ELSE @,
              !.location = IF body.city # Undef \/ body.address_text # Undef
                           THEN location ELSE @]
          sent == [Response("adminUpdateJob", u, id, 0, "") EXCEPT !.body = body]
      IN IF updated.status \in JobStatusEnum /\ Truthy(updated.title)
         THEN [jobs |-> (js \ {job}) \cup {updated},
               res |-> [sent EXCEPT !.status = 200, !.message = "Job updated successfully"]]
         ELSE [jobs |-> js,
               res |-> [sent EXCEPT !.status = errorHandler(200),
                                    !.message = "Validation failed"]]

adminUpdateJob(js, u, id, body) ==
    IF ~authorizeRoles({"admin"}, u)
    THEN [jobs |-> js, res |-> Forbidden("adminUpdateJob", u, id)]
    ELSE IF ~JobExists(js, id)
    THEN [jobs |-> js, res |-> Response("adminUpdateJob", u, id, 404, "Job not found")]
    ELSE
      LET job == findById(js, id)
          location == [coordinates |-> body.coordinates,
                       address_text |-> IF body.address_text # Undef
                                        THEN Trim(body.address_text) ELSE Undef]
          updated == [job EXCEPT
              !.title = IF body.title # Undef THEN Trim(body.title) ELSE @,
              !.status = IF body.status # Undef THEN body.status ELSE @,
              !.location = IF body.city # Undef \/ body.address_text # Undef
                           THEN location ELSE @]
          sent == [Response("adminUpdateJob", u, id, 0, "") EXCEPT !.body = body]
      IN IF updated.status \in JobStatusEnum /\ Truthy(updated.title)
         THEN [jobs |-> (js \ {job}) \cup {updated},
               res |-> [sent EXCEPT !.status = 200, !.message = "Job updated successfully"]]
         ELSE [jobs |-> js,
               res |-> [sent EXCEPT !.status = errorHandler(200),
                                    !.message = "Validation failed"]]

\* deleteJob of the admin controller (DELETE /admin/jobs/:id)
adminDeleteJob(js, u, id) ==
    IF ~authorizeRoles({"admin"}, u)
    THEN [jobs |-> js, res |-> Forbidden("adminDeleteJob", u, id)]
    ELSE IF ~JobExists(js, id)
    THEN [jobs |-> js, res |-> Response("adminDeleteJob", u, id, 404, "Job not found")]
    ELSE [jobs |-> js \ {findById(js, id)},
          res |-> Response("adminDeleteJob", u, id, 200, "Job deleted successfully")]

\* deleteEmployer of the admin controller: removes the user document only
deleteEmployer(us, u, e) ==
    IF ~authorizeRoles({"admin"}, u)
    THEN [users |-> us, res |-> Forbidden("deleteEmployer", u, 0)]
    ELSE IF ~(e \in us /\ user_type(e) = "employer")
    THEN [users |-> us, res |-> Response("deleteEmployer", u, 0, 404, "Employer not found")]
    ELSE [users |-> us \ {e},
          res |-> Response("deleteEmployer", u, 0, 200, "Employer deleted successfully")]

-----------------------------------------------------------------------------
(* The applications collection: the documents in insertion order *)

HasApplication(apps, j, u) ==
    \E i \in 1..Len(apps) : apps[i].job_id = j /\ apps[i].applicant_id = u

\* applyForJob up to its first await and the answer of Job.findById:
\* next is the await the request goes to, "done" when it has been answered
applyFindJob(js, u, id, resume) ==
    LET sent == [Response("applyForJob", u, id, 0, "") EXCEPT !.resume = resume] IN
    IF ~authorizeRoles({"laborer"}, u)
    THEN [res |-> [Forbidden("applyForJob", u, id) EXCEPT !.resume = resume],
          next |-> "done"]
    ELSE IF ~resume
    THEN [res |-> [sent EXCEPT !.status = 400,
                      !.message = "Resume file is required.",
                      !.unlinked = TRUE],
          next |-> "done"]
    ELSE IF ~JobExists(js, id)
    THEN [res |-> [sent EXCEPT !.status = 404,
                      !.message = "Job not found.",
                      !.unlinked = TRUE],
          next |-> "done"]
    ELSE IF findById(js, id).status # "Active"
    THEN [res |-> [sent EXCEPT !.status = 400,
                      !.message = "This job is not currently active for applications.",
                      !.unlinked = TRUE],
          next |-> "done"]
    ELSE [res |-> sent, next |-> "findOne"]

\* the answer of Application.findOne({job_id, applicant_id})
applyFindOne(apps, u, id) ==
    LET sent == [Response("applyForJob", u, id, 0, "") EXCEPT !.resume = TRUE] IN
    IF HasApplication(apps, id, u)
    THEN [res |-> [sent EXCEPT !.status = 400,
                      !.message = "You have already applied for this job.",
                      !.unlinked = TRUE],
          next |-> "done"]
    ELSE [res |-> sent, next |-> "save"]

\* newApplication.save() under the unique index {job_id: 1, applicant_id: 1}:
\* a duplicate key makes save() throw, and the handler does not catch it
applySave_noIndex(apps, u, id) ==
    [applications |-> Append(apps, [status |-> "Pending", job_id |-> id,
                                    applicant_id |-> u]),
     res |-> [Response("applyForJob", u, id, 201, "Application submitted successfully!")
                 EXCEPT !.resume = TRUE, !.created = TRUE]]

applySave(apps, u, id) ==
    IF HasApplication(apps, id, u)
    THEN [applications |-> apps,
          res |-> [Response("applyForJob", u, id, errorHandler(200),
                            "E11000 duplicate key error") EXCEPT !.resume = TRUE]]
    ELSE [applications |->
              Append(apps, [status |-> "Pending", job_id |-> id,
                            applicant_id |-> u]),
          res |-> [Response("applyForJob", u, id, 201, "Application submitted successfully!")
                      EXCEPT !.resume = TRUE, !.created = TRUE]]

\* getJobById of the job controller (GET /jobs/:id); reqUser is req.user as
\* the handler finds it
getJobById(js, apps, reqUser, id) ==
    IF ~JobExists(js, id)
    THEN Response("getJobById", reqUser, id, errorHandler(404), "Job not found")
    ELSE [Response("getJobById", reqUser, id, 200, "") EXCEPT
             !.hasApplied = /\ reqUser # Undef
                            /\ user_type(reqUser) = "laborer"
                            /\ HasApplication(apps, id, reqUser)]

\* req.user on a route that does not pass through protect: nothing sets it,
\* whatever token the viewer sends
unprotected(viewer) == Undef

-----------------------------------------------------------------------------
(* getAllJobs: the query built from req.query, and its two execution paths *)

\* a numeric query-string parameter: a number, a non-numeric string, or absent
Num(v) == [v |-> v, k |-> "num"]
NotANumber == [v |-> 0, k |-> "nan"]
Absent == [v |-> 0, k |-> "absent"]

\* every non-empty query string is truthy, "0" included
Present_always(p) == TRUE

Present(p) == p.k # "absent"

\* parseInt(p) || d
ParseIntOr(p, d) == IF p.k = "num" /\ p.v # 0 THEN p.v ELSE d

\* new RegExp(pattern, 'i').test(text), over the strings of the model
RegExpTest(pattern, text) ==
    <<pattern, text>> \in {<<"spring", "Springfield">>, <<"field", "Springfield">>,
                           <<"ville", "Shelbyville">>, <<"s", "Springfield">>,
                           <<"s", "Shelbyville">>, <<"full", "Full-time">>,
                           <<"part", "Part-time">>, <<"time", "Full-time">>,
                           <<"time", "Part-time">>, <<"weld", "welding">>,
                           <<"driv", "driving">>, <<"ing", "welding">>,
                           <<"ing", "driving">>}

\* s.split(',').map(x => x.trim()), over the strings of the model
SplitList(s) ==
    CASE s = "full,part" -> {"full", "part"}
      [] s = "weld, driv" -> {"weld", "driv"}
      [] OTHER -> {s}

\* the datePosted windows, in days
HasWindow(d) == d \in {"24h", "3d", "7d", "30d"}

Window(d) ==
    CASE d = "24h" -> 1
      [] d = "3d" -> 3
      [] d = "7d" -> 7
      [] d = "30d" -> 30

\* one condition of a query document
Cond(field, str, num, pats) == [num |-> num, field |-> field, str |-> str,
                                pats |-> pats]

Opt(present, cond) == IF present THEN <<cond>> ELSE <<>>

\* the conditions set field by field on the query object
baseConditions(q, t) ==
    Opt(Truthy(q.employerId), Cond("employer_id", q.employerId, 0, {}))
    \o Opt(Truthy(q.status), Cond("status", q.status, 0, {}))
    \o Opt(Truthy(q.skills), Cond("required_skills", "", 0, SplitList(q.skills)))
    \o Opt(Truthy(q.jobType), Cond("job_type", "", 0, SplitList(q.jobType)))
    \o Opt(Truthy(q.city), Cond("city", q.city, 0, {}))
    \o Opt(Truthy(q.datePosted) /\ HasWindow(q.datePosted),
           Cond("posted_at", "", IF HasWindow(q.datePosted) THEN t - Window(q.datePosted) ELSE 0, {}))

payRateConditions(q) ==
    Opt(Present(q.minPay) /\ q.minPay.k = "num", Cond("pay_rate_max", "", q.minPay.v, {}))
    \o Opt(Present(q.maxPay) /\ q.maxPay.k = "num", Cond("pay_rate_min", "", q.maxPay.v, {}))

\* the query object: its own conditions (doc) and the documents under $and
buildQuery_dropsBase(q, t) ==
    LET base == baseConditions(q, t)
        pay == payRateConditions(q)
    IN IF Len(pay) > 0
       THEN [doc |-> <<>>, and |-> [i \in 1..Len(pay) |-> <<pay[i]>>]]
       ELSE [doc |-> base, and |-> <<>>]

buildQuery(q, t) ==
    LET base == baseConditions(q, t)
        pay == payRateConditions(q)
    IN IF Len(pay) > 0
       THEN IF Len(base) > 0
            THEN [doc |-> <<>>, and |-> <<base>> \o [i \in 1..Len(pay) |-> <<pay[i]>>]]
            ELSE [doc |-> <<>>, and |-> [i \in 1..Len(pay) |-> <<pay[i]>>]]
       ELSE [doc |-> base, and |-> <<>>]

\* MongoDB's evaluation of one condition on one job; cast tells whether
\* Mongoose cast the query by the schema (find, countDocuments) or passed it
\* as written (aggregate), where the employerId string equals no ObjectId
CondHolds(c, j, cast) ==
    CASE c.field = "employer_id" -> cast /\ j.employer_id = c.str
      [] c.field = "status" -> j.status = c.str
      [] c.field = "required_skills" ->
             \E sk \in j.required_skills : \E pt \in c.pats : RegExpTest(pt, sk)
      [] c.field = "job_type" -> \E pt \in c.pats : RegExpTest(pt, j.job_type)
      [] c.field = "city" -> RegExpTest(c.str, j.city)
      [] c.field = "posted_at" -> j.posted_at >= c.num
      [] c.field = "pay_rate_max" -> j.pay_rate_max >= c.num
      [] c.field = "pay_rate_min" -> j.pay_rate_min <= c.num

DocHolds(d, j, cast) == \A i \in 1..Len(d) : CondHolds(d[i], j, cast)

Matches(query, j, cast) ==
    /\ DocHolds(query.doc, j, cast)
    /\ \A k \in 1..Len(query.and) : DocHolds(query.and[k], j, cast)

Abs(x) == IF x < 0 THEN -x ELSE x

\* the distance $geoNear computes between two [longitude, latitude] points;
\* only its order and its comparison with maxDistance are used
Distance(a, b) == Abs(a[1] - b[1]) + Abs(a[2] - b[2])

\* the order of the result: $sort {distance: 1, posted_at: -1} on the proximity
\* path, sort({posted_at: -1}) on the plain path; ties in collection order
Before(a, b, geo, near) ==
    LET da == IF geo THEN Distance(near, a.location.coordinates) ELSE 0
        db == IF geo THEN Distance(near, b.location.coordinates) ELSE 0
    IN \/ da < db
       \/ da = db /\ a.posted_at > b.posted_at
       \/ da = db /\ a.posted_at = b.posted_at /\ a._id < b._id

RECURSIVE Sorted(_, _, _)
Sorted(S, geo, near) ==
    IF S = {} THEN <<>>
    ELSE LET m == CHOOSE x \in S : \A y \in S \ {x} : Before(x, y, geo, near)
         IN <<m._id>> \o Sorted(S \ {m}, geo, near)

\* $skip / $limit, skip() / limit()
Page(seq, skip, limit) ==
    IF skip >= Len(seq) THEN <<>>
    ELSE SubSeq(seq, skip + 1, IF skip + limit > Len(seq) THEN Len(seq) ELSE skip + limit)

\* the documents that leave $geoNear, $lookup and $unwind: indexed jobs within
\* maxDistance that match the query and whose employer is found in users
geoNearLookup_keepsOrphans(js, us, query, near, maxDistance) ==
    {j \in js : /\ j.location.coordinates # NoCoords
                /\ Distance(near, j.location.coordinates) <= maxDistance
                /\ Matches(query, j, FALSE)}

geoNearLookup(js, us, query, near, maxDistance) ==
    {j \in js : /\ j.location.coordinates # NoCoords
                /\ Distance(near, j.location.coordinates) <= maxDistance
                /\ Matches(query, j, FALSE)
                /\ j.employer_id \in us}

\* new RegExp(pattern, 'i') throws a SyntaxError on an unbalanced pattern
ValidRegExp(pattern) == pattern \notin {"(", "["}

\* Mongoose casts the employer_id of a find/countDocuments query to an
\* ObjectId and rejects the query with a CastError when the string is not one
ValidObjectId(s) == castObjectId(s) \in AllUsers \cup {"e9"}

\* the RegExp objects of skills, jobType and city, built before the try block
regExpsBuilt(q) ==
    /\ Truthy(q.skills) => \A s \in SplitList(q.skills) : ValidRegExp(s)
    /\ Truthy(q.jobType) => \A s \in SplitList(q.jobType) : ValidRegExp(s)
    /\ Truthy(q.city) => ValidRegExp(q.city)

getAllJobs(js, us, t, q) ==
    LET page == ParseIntOr(q.page, 1)
        limit == ParseIntOr(q.limit, 10)
        skip == (page - 1) * limit
        query == buildQuery(q, t)
        ok == Response("getAllJobs", Undef, 0, 200, "")
        failed == Response("getAllJobs", Undef, 0, 500,
                           "Failed to fetch jobs due to a database error.")
    IN IF ~regExpsBuilt(q)
       THEN Response("getAllJobs", Undef, 0, errorHandler(200), "Invalid regular expression")
       ELSE IF Present(q.long) /\ Present(q.lat) /\ Present(q.maxDistance)
       THEN IF \/ q.long.k = "nan" \/ q.lat.k = "nan" \/ q.maxDistance.k = "nan"
               \/ q.maxDistance.v < 0 \/ skip < 0 \/ limit < 0
            THEN failed
            ELSE LET near == <<q.long.v, q.lat.v>>
                     found == geoNearLookup(js, us, query, near, q.maxDistance.v)
                 IN [ok EXCEPT !.total = Cardinality(found),
                               !.items = Page(Sorted(found, TRUE, near), skip, limit)]
       ELSE IF skip < 0 \/ (Truthy(q.employerId) /\ ~ValidObjectId(q.employerId))
            THEN failed
            ELSE LET found == {j \in js : Matches(query, j, TRUE)}
                 IN [ok EXCEPT !.total = Cardinality(found),
                               !.items = Page(Sorted(found, FALSE, <<0, 0>>), skip, Abs(limit))]

\* the statuses of an application
ApplicationStatusEnum ==
    {"Pending", "Reviewed", "Interview Scheduled", "Accepted", "Rejected"}

\* updateApplicationStatus of the job controller (PUT
\* /jobs/applications/:id/status), behind protect and
\* authorizeRoles('employer'); an application's id is its place in the
\* collection
updateApplicationStatus_noOwnerCheck(js, apps, u, aid, status) ==
    LET asked == [Response("updateApplicationStatus", u, aid, 0, "")
                     EXCEPT !.body = [status |-> status]] IN
    IF ~authorizeRoles({"employer"}, u)
    THEN [applications |-> apps,
          res |-> [Forbidden("updateApplicationStatus", u, aid)
                      EXCEPT !.body = [status |-> status]]]
    ELSE IF status \notin ApplicationStatusEnum
    THEN [applications |-> apps,
          res |-> [asked EXCEPT !.status = 400,
                                !.message = "Invalid application status provided."]]
    ELSE IF aid \notin 1..Len(apps)
    THEN [applications |-> apps,
          res |-> [asked EXCEPT !.status = 404, !.message = "Application not found."]]
    ELSE [applications |-> [apps EXCEPT ![aid].status = status],
          res |-> [asked EXCEPT !.status = 200,
                                !.message = "Application status updated successfully"]]

updateApplicationStatus(js, apps, u, aid, status) ==
    LET asked == [Response("updateApplicationStatus", u, aid, 0, "")
                     EXCEPT !.body = [status |-> status]] IN
    IF ~authorizeRoles({"employer"}, u)
    THEN [applications |-> apps,
          res |-> [Forbidden("updateApplicationStatus", u, aid)
                      EXCEPT !.body = [status |-> status]]]
    ELSE IF status \notin ApplicationStatusEnum
    THEN [applications |-> apps,
          res |-> [asked EXCEPT !.status = 400,
                                !.message = "Invalid application status provided."]]
    ELSE IF aid \notin 1..Len(apps)
    THEN [applications |-> apps,
          res |-> [asked EXCEPT !.status = 404, !.message = "Application not found."]]
    ELSE IF \/ ~JobExists(js, apps[aid].job_id)
            \/ findById(js, apps[aid].job_id).employer_id # u
    THEN [applications |-> apps,
          res |-> [asked EXCEPT !.status = 403,
                      !.message = "Not authorized to update this application status."]]
    ELSE [applications |-> [apps EXCEPT ![aid].status = status],
          res |-> [asked EXCEPT !.status = 200,
                                !.message = "Application status updated successfully"]]

-----------------------------------------------------------------------------
(* getEmployerJobs: the requester's jobs with their applicant counts *)

\* the $match / $group aggregate over the applications of the given jobs: one
\* {_id, count} per job id that has at least one application
applicationCounts_noSum(apps, jobIds) ==
    {[_id |-> id, count |-> 1] :
        id \in {apps[k].job_id : k \in {n \in 1..Len(apps) : apps[n].job_id \in jobIds}}}

applicationCounts(apps, jobIds) ==
    {[_id |-> id, count |-> Cardinality({k \in 1..Len(apps) : apps[k].job_id = id})] :
        id \in {apps[k].job_id : k \in {n \in 1..Len(apps) : apps[n].job_id \in jobIds}}}

\* countsMap.get(id) || 0
countsMapGet(counts, id) ==
    IF \E c \in counts : c._id = id THEN (CHOOSE c \in counts : c._id = id).count ELSE 0

\* getEmployerJobs of the job controller (GET /jobs/my-jobs), behind protect
\* and authorizeRoles('employer', 'admin')
getEmployerJobs(js, apps, u) ==
    IF ~authorizeRoles({"employer", "admin"}, u)
    THEN Forbidden("getEmployerJobs", u, 0)
    ELSE LET found == {j \in js : j.employer_id = u}
             order == Sorted(found, FALSE, <<0, 0>>)
             counts == applicationCounts(apps, {j._id : j \in found})
         IN [Response("getEmployerJobs", u, 0, 200, "") EXCEPT
                !.total = Len(order),
                !.items = [i \in 1..Len(order) |->
                              [job |-> findById(js, order[i]),
                               applicants_count |-> countsMapGet(counts, order[i])]]]

\* Application.find({job_id}).sort({createdAt: -1}): the applications of a
\* job, the latest first
RECURSIVE applicationsOfJob(_, _)
applicationsOfJob(apps, id) ==
    IF apps = <<>> THEN <<>>
    ELSE (IF apps[Len(apps)].job_id = id THEN <<apps[Len(apps)]>> ELSE <<>>)
         \o applicationsOfJob(SubSeq(apps, 1, Len(apps) - 1), id)

\* getApplicantsForSpecificJob of the job controller (GET
\* /jobs/:jobId/applicants), behind protect and authorizeRoles('employer'):
\* Job.findOne({_id, employer_id}) finds the job only for its employer
getApplicantsForSpecificJob_anyEmployer(js, apps, u, id) ==
    IF ~authorizeRoles({"employer"}, u)
    THEN Forbidden("getApplicantsForSpecificJob", u, id)
    ELSE IF ~authorizeRoles({"employer", "admin"}, u)
    THEN Response("getApplicantsForSpecificJob", u, id, 403,
                  "Only employers and admins can view job applicants.")
    ELSE IF ~JobExists(js, id)
    THEN Response("getApplicantsForSpecificJob", u, id, 404,
                  "Job not found or you are not authorized to view applicants for this job.")
    ELSE [Response("getApplicantsForSpecificJob", u, id, 200, "") EXCEPT
             !.body = [jobTitle |-> findById(js, id).title],
             !.items = applicationsOfJob(apps, id)]

getApplicantsForSpecificJob(js, apps, u, id) ==
    IF ~authorizeRoles({"employer"}, u)
    THEN Forbidden("getApplicantsForSpecificJob", u, id)
    ELSE IF ~authorizeRoles({"employer", "admin"}, u)
    THEN Response("getApplicantsForSpecificJob", u, id, 403,
                  "Only employers and admins can view job applicants.")
    ELSE IF ~\E j \in js : j._id = id /\ j.employer_id = u
    THEN Response("getApplicantsForSpecificJob", u, id, 404,
                  "Job not found or you are not authorized to view applicants for this job.")
    ELSE [Response("getApplicantsForSpecificJob", u, id, 200, "") EXCEPT
             !.body = [jobTitle |-> findById(js, id).title],
             !.items = applicationsOfJob(apps, id)]

-----------------------------------------------------------------------------
(* The ratings collection: the documents in insertion order *)

\* Rating schema validation: rating is a Number from 1 to 5
RatingValid(r) == r.rating.k = "num" /\ r.rating.v >= 1 /\ r.rating.v <= 5

\* createRating of the rating controller (POST /ratings), behind protect;
\* reqUser is the rater, body.rating a number or a non-numeric string,
\* body.job_id a job id or 0 when the request names no job
createRating(us, js, rs, reqUser, body) ==
    LET asked == [Response("createRating", reqUser, 0, 0, "") EXCEPT !.body = body]
        refused(status, message) ==
            [ratings |-> rs, res |-> [asked EXCEPT !.status = status, !.message = message]]
        rating == body.rating
        doc == [job_id |-> body.job_id, rating |-> rating, rater_id |-> reqUser,
                target_id |-> castObjectId(body.target_id)]
    IN IF ~Truthy(body.target_id) \/ rating = Absent \/ rating = Num(0)
       THEN refused(400, "Target user and rating are required.")
       ELSE IF rating.k = "num" /\ (rating.v < 1 \/ rating.v > 5)
       THEN refused(400, "Rating must be between 1 and 5.")
       ELSE IF reqUser = body.target_id
       THEN refused(400, "Cannot rate yourself.")
       ELSE IF ~ValidObjectId(body.target_id)
       THEN refused(errorHandler(200), "Cast to ObjectId failed")
       ELSE IF castObjectId(body.target_id) \notin us
       THEN refused(404, "Target user not found.")
       ELSE IF body.job_id # 0 /\ ~JobExists(js, body.job_id)
       THEN refused(404, "Associated job not found.")
       ELSE IF ~RatingValid(doc)
       THEN refused(errorHandler(200), "Rating validation failed")
       ELSE [ratings |-> Append(rs, doc),
             res |-> [asked EXCEPT !.status = 201, !.created = TRUE]]

-----------------------------------------------------------------------------
(* Requests *)

JobBody(title, job_type, city, lo, hi, skills, status) ==
    [status |-> status, city |-> city, job_type |-> job_type, title |-> title,
     pay_rate_min |-> lo, pay_rate_max |-> hi, required_skills |-> skills]

AdminBody(title, status, city, address_text, coordinates) ==
    [status |-> status, city |-> city, title |-> title,
     coordinates |-> coordinates, address_text |-> address_text]

\* whether save() accepts a loaded document that has no coordinates pair
\* depends on how Mongoose hydrated it; both outcomes are possible
SaveOutcomes(js, id) ==
    IF JobExists(js, id) /\ findById(js, id).location.coordinates = NoCoords
    THEN BOOLEAN ELSE {TRUE}

Init ==
    /\ users = AllUsers
    /\ jobs = {}
    /\ nextJobId = 1
    /\ applications = <<>>
    /\ ratings = <<>>
    /\ inflight = EmptyBag
    /\ now = 0
    /\ res = NoResponse

-----------------------------------------------------------------------------
(* Actions: one request each, by an authenticated user that still exists *)

CreateJob(U, Bodies, max) ==
    /\ nextJobId <= max
    /\ \E u \in U \cap users : \E body \in Bodies : \E g \in GeocodeOutcomes(body.city) :
         LET r == createJob(jobs, nextJobId, now, u, body, g) IN
           /\ jobs' = r.jobs
           /\ res' = r.res
           /\ nextJobId' = IF r.res.created THEN nextJobId + 1 ELSE nextJobId
    /\ UNCHANGED <<users, applications, inflight, now, ratings>>

\* POST /api/jobs in the strict revisions
StrictCreateJob(U, Bodies, max) ==
    /\ nextJobId <= max
    /\ \E u \in U \cap users : \E body \in Bodies : \E g \in GeocodeOutcomes(body.city) :
         LET r == strictCreateJob(jobs, nextJobId, now, u, body, g) IN
           /\ jobs' = r.jobs
           /\ res' = r.res
           /\ nextJobId' = IF r.res.created THEN nextJobId + 1 ELSE nextJobId
    /\ UNCHANGED <<users, applications, inflight, now, ratings>>

\* PUT /api/jobs/:id in the strict revisions
StrictUpdateJob(U, Ids, Bodies) ==
    /\ \E u \in U \cap users : \E id \in Ids : \E body \in Bodies :
         \E g \in GeocodeOutcomes(body.city) : \E saveOk \in SaveOutcomes(jobs, id) :
           LET r == strictUpdateJob(jobs, u, id, body, g, saveOk) IN
             /\ jobs' = r.jobs
             /\ res' = r.res
    /\ UNCHANGED <<users, nextJobId, applications, inflight, now, ratings>>

UpdateJob(U, Ids, Bodies) ==
    /\ \E u \in U \cap users : \E id \in Ids : \E body \in Bodies :
       \E g \in GeocodeOutcomes(body.city) : \E saveOk \in SaveOutcomes(jobs, id) :
         LET r == updateJob(jobs, u, id, body, g, saveOk) IN
           /\ jobs' = r.jobs
           /\ res' = r.res
    /\ UNCHANGED <<users, nextJobId, applications, inflight, now, ratings>>

DeleteJob(U, Ids) ==
    /\ \E u \in U \cap users : \E id \in Ids :
         LET r == deleteJob(jobs, u, id) IN
           /\ jobs' = r.jobs
           /\ res' = r.res
    /\ UNCHANGED <<users, nextJobId, applications, inflight, now, ratings>>

AdminUpdateJob(U, Ids, Bodies) ==
    /\ \E u \in U \cap users : \E id \in Ids : \E body \in Bodies :
         LET r == adminUpdateJob(jobs, u, id, body) IN
           /\ jobs' = r.jobs
           /\ res' = r.res
    /\ UNCHANGED <<users, nextJobId, applications, inflight, now, ratings>>

AdminDeleteJob(U, Ids) ==
    /\ \E u \in U \cap users : \E id \in Ids :
         LET r == adminDeleteJob(jobs, u, id) IN
           /\ jobs' = r.jobs
           /\ res' = r.res
    /\ UNCHANGED <<users, nextJobId, applications, inflight, now, ratings>>

DeleteEmployer(U, Es) ==
    /\ \E u \in U \cap users : \E e \in Es :
         LET r == deleteEmployer(users, u, e) IN
           /\ users' = r.users
           /\ res' = r.res
    /\ UNCHANGED <<jobs, nextJobId, applications, inflight, now, ratings>>

\* GET /api/jobs/:id by a viewer who sends a token of their own, or none
GetJobById(Viewers, Ids) ==
    /\ \E viewer \in (Viewers \cap users) \cup {Undef} : \E id \in Ids :
         res' = [getJobById(jobs, applications, unprotected(viewer), id)
                    EXCEPT !.user = viewer]
    /\ UNCHANGED <<users, jobs, nextJobId, applications, inflight, now, ratings>>

\* PUT /api/jobs/applications/:id/status
UpdateApplicationStatus(U, Aids, Statuses) ==
    /\ \E u \in U \cap users : \E aid \in Aids : \E status \in Statuses :
         LET r == updateApplicationStatus(jobs, applications, u, aid, status) IN
           /\ applications' = r.applications
           /\ res' = r.res
    /\ UNCHANGED <<users, jobs, nextJobId, inflight, now, ratings>>

\* GET /api/jobs/my-jobs
GetEmployerJobs(U) ==
    /\ \E u \in U \cap users : res' = getEmployerJobs(jobs, applications, u)
    /\ UNCHANGED <<users, jobs, nextJobId, applications, inflight, now, ratings>>

\* GET /api/jobs/:jobId/applicants
GetApplicantsForSpecificJob(U, Ids) ==
    /\ \E u \in U \cap users : \E id \in Ids :
         res' = getApplicantsForSpecificJob(jobs, applications, u, id)
    /\ UNCHANGED <<users, jobs, nextJobId, applications, inflight, now, ratings>>

\* GET /api/jobs is public: no user is attached to the request
GetAllJobs(Qs) ==
    /\ \E q \in Qs : res' = [getAllJobs(jobs, users, now, q) EXCEPT !.body = q]
    /\ UNCHANGED <<users, jobs, nextJobId, applications, inflight, now, ratings>>

\* a request with the header h reaches a route behind protect
Protect(Headers) ==
    /\ \E h \in Headers : res' = protect(users, h)
    /\ UNCHANGED <<users, jobs, nextJobId, applications, inflight, now, ratings>>

\* POST /api/jobs with the header h: protect, then authorizeRoles and createJob
PostJob(Hs, Bodies, max) ==
    /\ nextJobId <= max
    /\ \E h \in Hs : \E body \in Bodies : \E g \in GeocodeOutcomes(body.city) :
         LET p == protect(users, h)
             r == createJob(jobs, nextJobId, now, p.user, body, g)
         IN IF p.body.next = 0
            THEN /\ res' = [p EXCEPT !.op = "createJob"]
                 /\ UNCHANGED <<jobs, nextJobId>>
            ELSE /\ jobs' = r.jobs
                 /\ res' = r.res
                 /\ nextJobId' = IF r.res.created THEN nextJobId + 1 ELSE nextJobId
    /\ UNCHANGED <<users, applications, inflight, now, ratings>>

\* POST /api/ratings by an authenticated user
CreateRating(U, Bodies) ==
    /\ Len(ratings) < MaxRatings
    /\ \E u \in U \cap users : \E body \in Bodies :
         LET r == createRating(users, jobs, ratings, u, body) IN
           /\ ratings' = r.ratings
           /\ res' = r.res
    /\ UNCHANGED <<users, jobs, nextJobId, applications, inflight, now>>

\* time passes, one day at a time
Tick ==
    /\ now < MaxTime
    /\ now' = now + 1
    /\ res' = NoResponse
    /\ UNCHANGED <<users, jobs, nextJobId, applications, inflight, ratings>>

-----------------------------------------------------------------------------
(* SpecJobs: the location of a job document under createJob, the owner's   *)
(* updateJob and the admin's updateJob                                      *)

EditUsers == {"e1", "a1"}

EditIds == 1..MaxJobs

CreateBodies ==
    {JobBody("Welder", "Full-time", c, 1, 3, Undef, Undef) :
        c \in {"Springfield", " Springfield ", Undef}}
    \cup {JobBody("Welder", "Bogus", "Springfield", 1, 3, Undef, Undef)}

UpdateBodies ==
    {JobBody(Undef, Undef, c, NoNumber, NoNumber, Undef, Undef) :
        c \in {"", "Springfield", "Shelbyville"}}
    \cup {JobBody("Driver", Undef, c, NoNumber, NoNumber, Undef, Undef) :
        c \in {Undef, "Springfield"}}

AdminBodies ==
    {AdminBody(Undef, Undef, "Shelbyville", Undef, NoCoords),
     AdminBody(Undef, Undef, "Shelbyville", Undef, <<30, 40>>),
     AdminBody(Undef, Undef, Undef, Undef, <<30, 40>>),
     AdminBody(Undef, "Bogus", Undef, Undef, NoCoords)}

CreateJobEdit == CreateJob({"e1"}, CreateBodies, MaxJobs)
UpdateJobEdit == UpdateJob(EditUsers, EditIds, UpdateBodies)
AdminUpdateJobEdit == AdminUpdateJob(EditUsers, EditIds, AdminBodies)

NextJobs ==
    \/ CreateJobEdit
    \/ UpdateJobEdit
    \/ AdminUpdateJobEdit

SpecJobs == Init /\ [][NextJobs]_vars

-----------------------------------------------------------------------------
(* SpecAuth: who may change or remove a job through /jobs/:id *)

AuthUsers == {"e1", "e2", "l1", "a1"}

AuthBodies ==
    {JobBody("Driver", Undef, Undef, NoNumber, NoNumber, Undef, Undef),
     JobBody(Undef, Undef, Undef, NoNumber, NoNumber, Undef, "Closed")}

CreateJobAuth ==
    CreateJob({"e1", "e2", "l1"},
              {JobBody("Welder", "Full-time", "Springfield", 1, 3, Undef, Undef)}, MaxJobs)
UpdateJobAuth == UpdateJob(AuthUsers, EditIds, AuthBodies)
DeleteJobAuth == DeleteJob(AuthUsers, EditIds)
AdminDeleteJobAuth == AdminDeleteJob(AuthUsers, EditIds)

NextAuth ==
    \/ CreateJobAuth
    \/ UpdateJobAuth
    \/ DeleteJobAuth
    \/ AdminDeleteJobAuth

SpecAuth == Init /\ [][NextAuth]_vars

-----------------------------------------------------------------------------
(* applyForJob, one action per await.  inflight holds the requests that are *)
(* waiting for the database: pc names the answer a request waits for.       *)

Waiting(pc, u, id) == SetToBag({[user |-> u, job |-> id, pc |-> pc]})

ApplyFindJob(U, Ids) ==
    /\ BagCardinality(inflight) < MaxReqs
    /\ \E u \in U \cap users : \E id \in Ids : \E resume \in BOOLEAN :
         LET r == applyFindJob(jobs, u, id, resume) IN
           /\ res' = r.res
           /\ inflight' = IF r.next = "done" THEN inflight
                          ELSE inflight (+) Waiting(r.next, u, id)
    /\ UNCHANGED <<users, jobs, nextJobId, applications, now, ratings>>

\* POST /api/jobs/:id/apply with the header h: protect, then authorizeRoles
\* and applyForJob up to its first await
PostApply(Hs, Ids) ==
    /\ BagCardinality(inflight) < MaxReqs
    /\ \E h \in Hs : \E id \in Ids : \E resume \in BOOLEAN :
         LET p == protect(users, h)
             r == applyFindJob(jobs, p.user, id, resume)
         IN IF p.body.next = 0
            THEN /\ res' = [p EXCEPT !.op = "applyForJob", !.job = id]
                 /\ UNCHANGED inflight
            ELSE /\ res' = r.res
                 /\ inflight' = IF r.next = "done" THEN inflight
                                ELSE inflight (+) Waiting(r.next, p.user, id)
    /\ UNCHANGED <<users, jobs, nextJobId, applications, now, ratings>>

ApplyFindOne ==
    /\ \E rq \in BagToSet(inflight) :
         /\ rq.pc = "findOne"
         /\ LET r == applyFindOne(applications, rq.user, rq.job) IN
              /\ res' = r.res
              /\ inflight' = IF r.next = "done" THEN inflight (-) SetToBag({rq})
                             ELSE (inflight (-) SetToBag({rq}))
                                      (+) Waiting(r.next, rq.user, rq.job)
    /\ UNCHANGED <<users, jobs, nextJobId, applications, now, ratings>>

ApplySave ==
    /\ \E rq \in BagToSet(inflight) :
         /\ rq.pc = "save"
         /\ LET r == applySave(applications, rq.user, rq.job) IN
              /\ applications' = r.applications
              /\ res' = r.res
              /\ inflight' = inflight (-) SetToBag({rq})
    /\ UNCHANGED <<users, jobs, nextJobId, now, ratings>>

-----------------------------------------------------------------------------
(* SpecApply: applications racing with each other and with changes of the job *)

ApplyIds == 1..MaxJobs

ApplyUsers == {"l1", "l2"}

StatusBodies ==
    {JobBody(Undef, Undef, Undef, NoNumber, NoNumber, Undef, "Closed")}

CreateJobApply ==
    CreateJob({"e1"}, {JobBody("Welder", "Full-time", "Nowhere", 1, 3, Undef, Undef)}, MaxJobs)
UpdateJobApply == UpdateJob({"e1"}, ApplyIds, StatusBodies)
DeleteJobApply == DeleteJob({"e1"}, ApplyIds)
ApplyFindJobApply == ApplyFindJob(ApplyUsers, ApplyIds)

NextApply ==
    \/ CreateJobApply
    \/ UpdateJobApply
    \/ DeleteJobApply
    \/ ApplyFindJobApply
    \/ ApplyFindOne
    \/ ApplySave

SpecApply == Init /\ [][NextApply]_vars

-----------------------------------------------------------------------------
(* SpecQuery: getAllJobs over the corpora that createJob, deleteEmployer    *)
(* and the passing of time produce                                          *)

Query(status, jobType, city, skills, datePosted, minPay, maxPay) ==
    [status |-> status, lat |-> Absent, city |-> city, employerId |-> Undef,
     skills |-> skills, jobType |-> jobType, datePosted |-> datePosted,
     minPay |-> minPay, maxPay |-> maxPay, limit |-> Absent,
     maxDistance |-> Absent, page |-> Absent, long |-> Absent]

\* a radius that reaches every point the geocoder of the model resolves to
BigRadius == 100

WithProximity(q) == [q EXCEPT !.long = Num(0), !.lat = Num(0), !.maxDistance = Num(BigRadius)]

NoProximity(q) == [q EXCEPT !.long = Absent, !.lat = Absent, !.maxDistance = Absent]

PayBands ==
    {<<Absent, Absent>>, <<Num(2), Absent>>, <<Absent, Num(2)>>, <<Num(1), Num(3)>>,
     <<Num(0), Absent>>, <<NotANumber, Num(2)>>}

FilterQueries ==
    {Query(Undef, Undef, Undef, Undef, Undef, b[1], b[2]) : b \in PayBands}
    \cup {Query("Active", "full", Undef, Undef, Undef, b[1], b[2]) : b \in PayBands}
    \cup {Query(Undef, Undef, "ville", "driv", "24h", b[1], b[2]) : b \in PayBands}

PagedQueries ==
    {[Query(Undef, Undef, Undef, Undef, Undef, Absent, Absent)
          EXCEPT !.page = p[1], !.limit = p[2]] :
       p \in {<<Absent, Num(1)>>, <<Num(2), Num(1)>>, <<Num(-1), Absent>>}}

Queries ==
    LET plain == FilterQueries \cup PagedQueries
    IN plain \cup {WithProximity(q) : q \in plain}

CreateWelder ==
    CreateJob({"e1"}, {JobBody("Welder", "Full-time", "Shelbyville", 3, 1, "welding", Undef)},
              MaxJobs)
CreateDriver ==
    CreateJob({"e2"}, {JobBody("Driver", "Part-time", "Shelbyville", 1, 3, "driving", Undef)},
              MaxJobs)
DeleteEmployerQuery == DeleteEmployer({"a1"}, {"e1"})
GetAllJobsQuery == GetAllJobs(Queries)

NextQuery ==
    \/ CreateWelder
    \/ CreateDriver
    \/ DeleteEmployerQuery
    \/ GetAllJobsQuery
    \/ Tick

SpecQuery == Init /\ [][NextQuery]_vars

-----------------------------------------------------------------------------
(* SpecMerge: what the owner's updateJob and the admin's updateJob write    *)
(* into a stored job                                                        *)

\* fields of a request body that the handlers do not destructure
WithExtras(body, employer_id, posted_at) ==
    body @@ [_id |-> 9, employer_id |-> employer_id, posted_at |-> posted_at]

MergeIds == 1..MaxJobs

MergeBodies ==
    {JobBody("", Undef, Undef, NoNumber, NoNumber, "", ""),
     JobBody(Undef, "Part-time", Undef, 0, 2, "welding, driving", Undef),
     JobBody("Driver", Undef, Undef, EmptyNumber, NoNumber, Undef, Undef),
     WithExtras(JobBody("Driver", Undef, Undef, NoNumber, NoNumber, Undef, Undef), "e2", 0)}
    \cup {JobBody(Undef, Undef, Undef, NoNumber, NoNumber, Undef, st) :
             st \in {"Active", "Filled", "Closed"}}

AdminMergeBodies ==
    {AdminBody(Undef, "Active", Undef, Undef, NoCoords),
     WithExtras(AdminBody("Driver", Undef, Undef, Undef, NoCoords), "e2", 0)}

CreateJobMerge ==
    CreateJob({"e1"}, {JobBody("Welder", "Full-time", "Nowhere", 1, 3, "welding", Undef)},
              MaxJobs)
UpdateJobMerge == UpdateJob({"e1", "a1"}, MergeIds, MergeBodies)
AdminUpdateJobMerge == AdminUpdateJob({"a1"}, MergeIds, AdminMergeBodies)

NextMerge ==
    \/ CreateJobMerge
    \/ UpdateJobMerge
    \/ AdminUpdateJobMerge
    \/ Tick

SpecMerge == Init /\ [][NextMerge]_vars

-----------------------------------------------------------------------------
(* SpecView: a job page viewed while laborers apply                         *)

ViewIds == 1..MaxJobs

CreateJobView ==
    CreateJob({"e1", "e2"}, {JobBody("Welder", "Full-time", "Nowhere", 1, 3, Undef, Undef)},
              MaxJobs)
ApplyFindJobView == ApplyFindJob({"l1", "l2"}, ViewIds)
GetJobByIdView == GetJobById({"l1", "l2", "e1"}, 1..(MaxJobs + 1))
GetEmployerJobsView == GetEmployerJobs({"e1", "e2", "l1"})

NextView ==
    \/ CreateJobView
    \/ ApplyFindJobView
    \/ ApplyFindOne
    \/ ApplySave
    \/ GetJobByIdView
    \/ GetEmployerJobsView

SpecView == Init /\ [][NextView]_vars

-----------------------------------------------------------------------------
(* SpecStrict: the createJob and updateJob revisions that refuse a city the *)
(* geocoder cannot resolve                                                  *)

StrictBodies ==
    {JobBody("Welder", "Full-time", c, 1, 3, "welding", Undef) :
         c \in {"Springfield", "Shelbyville", "Nowhere"}}
    \cup {JobBody("Welder", "Bogus", "Springfield", 1, 3, Undef, Undef),
          JobBody("Welder", "Full-time", Undef, 1, 3, Undef, Undef)}

CreateJobStrict == StrictCreateJob({"e1", "e2", "l1"}, StrictBodies, MaxJobs)
UpdateJobStrict ==
    StrictUpdateJob({"e1"}, 1..MaxJobs,
                    {JobBody(Undef, Undef, c, NoNumber, NoNumber, Undef, Undef) :
                        c \in {"Shelbyville", "Nowhere"}})
DeleteJobStrict == DeleteJob({"e1", "a1"}, 1..MaxJobs)

NextStrict ==
    \/ CreateJobStrict
    \/ UpdateJobStrict
    \/ DeleteJobStrict
    \/ Tick

SpecStrict == Init /\ [][NextStrict]_vars

-----------------------------------------------------------------------------
(* SpecPaging: getAllJobs requests with some of the proximity parameters,   *)
(* with page and limit values of every kind, and with malformed filters     *)

NoFilter == Query(Undef, Undef, Undef, Undef, Undef, Absent, Absent)

\* one or two of long, lat, maxDistance
PartialProximity(q) ==
    {[q EXCEPT !.long = Num(30)], [q EXCEPT !.lat = Num(40)],
     [q EXCEPT !.maxDistance = Num(BigRadius)],
     [q EXCEPT !.long = Num(30), !.lat = Num(40)],
     [q EXCEPT !.long = Num(30), !.maxDistance = Num(BigRadius)],
     [q EXCEPT !.lat = NotANumber, !.maxDistance = Num(BigRadius)]}

PartialQueries ==
    PartialProximity(NoFilter)
    \cup PartialProximity(Query(Undef, "full", Undef, Undef, Undef, Num(1), Absent))

PageLimits ==
    {<<p, Absent>> : p \in {Absent, NotANumber, Num(0), Num(-1), Num(2)}}
    \cup {<<Absent, l>> : l \in {NotANumber, Num(0), Num(-1), Num(1)}}
    \cup {<<Num(2), Num(1)>>}

PageLimitQueries ==
    LET plain == {[NoFilter EXCEPT !.page = p[1], !.limit = p[2]] : p \in PageLimits}
    IN plain \cup {WithProximity(q) : q \in plain}

\* a filter value that is no regular expression, or no id; an employerId
\* that is one
MalformedQueries ==
    LET plain == {[NoFilter EXCEPT !.city = "("], [NoFilter EXCEPT !.skills = "["],
                  [NoFilter EXCEPT !.jobType = "("], [NoFilter EXCEPT !.employerId = "abc"],
                  [NoFilter EXCEPT !.employerId = "e1"]}
    IN plain \cup {WithProximity(q) : q \in plain}

GetAllJobsPaging == GetAllJobs(PartialQueries \cup PageLimitQueries \cup MalformedQueries)

NextPaging ==
    \/ CreateWelder
    \/ CreateDriver
    \/ GetAllJobsPaging
    \/ Tick

SpecPaging == Init /\ [][NextPaging]_vars

-----------------------------------------------------------------------------
(* SpecStatus: the status of stored applications                            *)

StatusIds == 1..MaxJobs

\* the statuses a request may name: two of the enum, one outside it, none
RequestedStatuses == {"Reviewed", "Accepted", "Bogus", Undef}

CreateJobStatus ==
    CreateJob({"e1"}, {JobBody("Welder", "Full-time", "Nowhere", 1, 3, Undef, Undef)}, MaxJobs)
DeleteJobStatus == DeleteJob({"e1"}, StatusIds)
AdminDeleteJobStatus == AdminDeleteJob({"a1"}, StatusIds)
ApplyFindJobStatus == ApplyFindJob({"l1"}, StatusIds)
UpdateApplicationStatusAny ==
    UpdateApplicationStatus({"e1", "e2", "l1"}, 1..(MaxJobs + 1), RequestedStatuses)

NextStatus ==
    \/ CreateJobStatus
    \/ DeleteJobStatus
    \/ AdminDeleteJobStatus
    \/ ApplyFindJobStatus
    \/ ApplyFindOne
    \/ ApplySave
    \/ UpdateApplicationStatusAny

SpecStatus == Init /\ [][NextStatus]_vars

-----------------------------------------------------------------------------
(* SpecCity: the city and the location of a job under createJob and the     *)
(* owner's updateJob alone                                                   *)

CityBodies ==
    {JobBody(Undef, Undef, c, NoNumber, NoNumber, Undef, Undef) :
        c \in {"Springfield", "Shelbyville", "Nowhere"}}

CreateJobCity ==
    CreateJob({"e1"}, {JobBody("Welder", "Full-time", "Springfield", 1, 3, Undef, Undef)},
              MaxJobs)
UpdateJobCity == UpdateJob({"e1"}, 1..MaxJobs, CityBodies)

NextCity ==
    \/ CreateJobCity
    \/ UpdateJobCity
    \/ Tick

SpecCity == Init /\ [][NextCity]_vars

-----------------------------------------------------------------------------
(* SpecProtect: requests at the protect middleware and at the two routes    *)
(* behind it that create documents, with tokens that outlive their users    *)

Headers ==
    {NoHeader, BasicHeader, Bearer(NoToken), Bearer(BadToken)}
    \cup {Bearer(SignedToken(u)) : u \in {"e1", "e2", "l1", "a1"}}

ProtectAny == Protect(Headers)
DeleteEmployerProtect == DeleteEmployer({"a1"}, Employers)

PostJobProtect ==
    PostJob(Headers, {JobBody("Welder", "Full-time", "Nowhere", 1, 3, Undef, Undef)}, MaxJobs)
PostApplyProtect == PostApply(Headers, 1..MaxJobs)

NextProtect ==
    \/ ProtectAny
    \/ DeleteEmployerProtect
    \/ PostJobProtect
    \/ PostApplyProtect
    \/ ApplyFindOne
    \/ ApplySave

SpecProtect == Init /\ [][NextProtect]_vars

-----------------------------------------------------------------------------
(* SpecRating: ratings of users, with and without a job                     *)

RatingBody(target_id, job_id, rating) ==
    [job_id |-> job_id, rating |-> rating, target_id |-> target_id]

RatingBodies ==
    {RatingBody(t, 0, Num(5)) : t \in {Undef, "e1", "l1", "L1", "e9", "zz"}}
    \cup {RatingBody("e1", j, Num(5)) : j \in {1, 7}}
    \cup {RatingBody("e1", 0, r) : r \in {Absent, Num(0), Num(1), Num(6), Num(-1), NotANumber}}

CreateRatingAny == CreateRating({"l1", "e1"}, RatingBodies)
CreateJobRating ==
    CreateJob({"e1"}, {JobBody("Welder", "Full-time", "Nowhere", 1, 3, Undef, Undef)}, MaxJobs)
DeleteEmployerRating == DeleteEmployer({"a1"}, {"e1"})

NextRating ==
    \/ CreateRatingAny
    \/ CreateJobRating
    \/ DeleteEmployerRating

SpecRating == Init /\ [][NextRating]_vars

-----------------------------------------------------------------------------
(* SpecApplicants: who is shown the applications of a job                   *)

CreateJobApplicants ==
    CreateJob({"e1", "a1"}, {JobBody("Welder", "Full-time", "Nowhere", 1, 3, Undef, Undef)},
              MaxJobs)
ApplyFindJobApplicants == ApplyFindJob({"l1", "l2"}, 1..MaxJobs)
GetApplicantsAny ==
    GetApplicantsForSpecificJob({"e1", "e2", "l1", "a1"}, 1..(MaxJobs + 1))

NextApplicants ==
    \/ CreateJobApplicants
    \/ ApplyFindJobApplicants
    \/ ApplyFindOne
    \/ ApplySave
    \/ GetApplicantsAny

SpecApplicants == Init /\ [][NextApplicants]_vars

-----------------------------------------------------------------------------
(* Properties of SpecJobs and SpecAuth *)

\* the step just taken was a request of kind op (every action writes res)
Answered(op) == res'.op = op

\* the geocoder was asked by the createJob request just answered, and failed
GeocoderFailedOnCreate == Answered("createJob") /\ res'.geo \in {"throw", "empty"}

\* C5 as stated: when the geocoder throws or finds nothing for a createJob
\* request that has all required fields, exactly one Job is persisted, with
\* coordinates [0, 0] and address_text equal to the input city, and the
\* response status is 201.
C5_AsStated ==
    [][GeocoderFailedOnCreate =>
          /\ res'.status = 201
          /\ Cardinality(jobs' \ jobs) = 1
          /\ \A j \in jobs' \ jobs :
                /\ j.location.coordinates = <<0, 0>>
                /\ j.location.address_text = res'.body.city]_vars

\* C5 amended: when the geocoder throws or finds nothing for a createJob
\* request that has all required fields and that Job.create accepts, exactly
\* one Job is persisted, with coordinates [0, 0] and address_text equal to the
\* input city with its surrounding whitespace trimmed (that is, to the stored
\* city), and the response status is 201.
C5_SentinelOnGeocoderFailure ==
    [][GeocoderFailedOnCreate /\ res'.body.job_type \in JobTypeEnum =>
          /\ res'.status = 201
          /\ Cardinality(jobs' \ jobs) = 1
          /\ jobs \subseteq jobs'
          /\ \A j \in jobs' \ jobs :
                /\ j.location.coordinates = <<0, 0>>
                /\ j.location.address_text = Trim(res'.body.city)
                /\ j.location.address_text = j.city]_vars

\* a job was created with untrimmed city text while the geocoder was failing
C5_Witness ==
    /\ res.op = "createJob" /\ res.geo \in {"throw", "empty"} /\ res.status = 201
    /\ res.body.city = " Springfield "
    /\ \E j \in jobs : j._id = res.job /\ j.location.coordinates = <<0, 0>>

\* C6: an updateJob request whose city is absent, empty or equal to the stored
\* city does not call the geocoder and leaves the job's location (coordinates
\* and address_text) as it was, whatever else the request changes.
C6_NoRegeocodeOnSameCity ==
    [][\A id \in 1..MaxJobs :
          (/\ Answered("updateJob") /\ res'.job = id
           /\ JobExists(jobs, id)
           /\ (~Truthy(res'.body.city) \/ res'.body.city = findById(jobs, id).city))
          => /\ res'.geo = "none"
             /\ JobExists(jobs', id)
             /\ findById(jobs', id).location = findById(jobs, id).location]_vars

\* an update that names the stored city and changes the title was saved
C6_Witness ==
    /\ res.op = "updateJob" /\ res.status = 200 /\ res.geo = "none"
    /\ Truthy(res.body.city) /\ res.body.title = "Driver"
    /\ \E j \in jobs : j._id = res.job /\ j.city = res.body.city /\ j.title = "Driver"

\* C7: every persisted Job has location.coordinates present as a
\* [longitude, latitude] pair, after any sequence of createJob, owner updateJob
\* and admin updateJob requests.
C7_CoordinatesAlwaysPresent ==
    \A j \in jobs : j.location.coordinates # NoCoords /\ Len(j.location.coordinates) = 2

IsOwnerOrAdmin(u, j) == j.employer_id = u \/ user_type(u) = "admin"

\* what C10 says of one PUT /jobs/:id or DELETE /jobs/:id request on job id;
\* missing is the status it promises for a job that does not exist
C10_Step(id, missing) ==
    (/\ (Answered("updateJob") \/ Answered("deleteJob"))
     /\ res'.job = id)
    => /\ jobs' # jobs => JobExists(jobs, id) /\ IsOwnerOrAdmin(res'.user, findById(jobs, id))
       /\ (JobExists(jobs, id) /\ ~IsOwnerOrAdmin(res'.user, findById(jobs, id)))
             => res'.status = 403 /\ jobs' = jobs
       /\ ~JobExists(jobs, id) => res'.status = missing /\ jobs' = jobs

\* C10 as stated: PUT and DELETE /jobs/:id change or remove a job only for its
\* owner or an admin; any other authenticated requester gets 403 and the job
\* stays as it was; a job id that does not exist yields 404 and no change.
C10_AsStated == [][\A id \in 1..MaxJobs : C10_Step(id, 404)]_vars

\* C10 amended: as stated, except that for a job id that does not exist the
\* answer is 404 only to an employer or admin requester; a laborer is answered
\* 403 by the role gate in front of the handler. No state changes either way.
C10_OwnerOrAdminOnly ==
    [][\A id \in 1..MaxJobs :
          C10_Step(id, IF user_type(res'.user) = "laborer" THEN 403 ELSE 404)]_vars

\* another employer was refused on an existing job
C10_Witness ==
    /\ res.op \in {"updateJob", "deleteJob"} /\ res.status = 403
    /\ user_type(res.user) = "employer"
    /\ \E j \in jobs : j._id = res.job /\ j.employer_id # res.user

-----------------------------------------------------------------------------
(* Properties of SpecApply *)

\* C1: at most one Application exists per (job_id, applicant_id) pair, under
\* any interleaving of applyForJob requests.
C1_OneApplicationPerPair ==
    \A i, k \in 1..Len(applications) :
        (/\ applications[i].job_id = applications[k].job_id
         /\ applications[i].applicant_id = applications[k].applicant_id) => i = k

\* two requests of one laborer for one job both passed findOne; the second
\* save met the unique index
C1_Witness ==
    /\ res.op = "applyForJob" /\ res.status = 500 /\ ~res.created
    /\ HasApplication(applications, res.job, res.user)

\* C8: a second application by the same laborer for the same job, whether it
\* comes after the first or loses a race with it, is answered 400 'already
\* applied', never 201 and never a generic server error.  (The second request
\* is one that carries a resume and ends, without creating anything, while the
\* job is Active and the first application is stored.)
C8_SecondAttemptConflict ==
    (/\ res.op = "applyForJob" /\ res.status # 0 /\ res.resume /\ ~res.created
     /\ HasApplication(applications, res.job, res.user)
     /\ JobExists(jobs, res.job) /\ findById(jobs, res.job).status = "Active")
    => /\ res.status = 400
       /\ res.message = "You have already applied for this job."

\* C9: an Application is persisted only for a job that exists and is Active at
\* the moment of the save, under any interleaving with updateJob and deleteJob.
C9_SavedOnlyForActiveJob ==
    [][\A i \in (Len(applications) + 1)..Len(applications') :
          /\ JobExists(jobs, applications'[i].job_id)
          /\ findById(jobs, applications'[i].job_id).status = "Active"]_vars

-----------------------------------------------------------------------------
(* Properties of SpecQuery *)

Range(s) == {s[i] : i \in 1..Len(s)}

IsProximity(q) == Present(q.long) /\ Present(q.lat) /\ Present(q.maxDistance)

FirstPageHoldsAll(r) ==
    /\ r.body.page = Absent
    /\ r.body.limit = Absent
    /\ r.total <= 10

\* the pay band of the request overlaps the job's [pay_rate_min, pay_rate_max]
PayOverlap(q, j) ==
    /\ q.minPay.k = "num" => j.pay_rate_max >= q.minPay.v
    /\ q.maxPay.k = "num" => j.pay_rate_min <= q.maxPay.v

\* the radius of the request reaches every job of the corpus
CoversEveryJob(q, js) ==
    \A j \in js :
        /\ j.location.coordinates # NoCoords
        /\ Distance(<<q.long.v, q.lat.v>>, j.location.coordinates) <= q.maxDistance.v

\* the filters and, when asked for, the proximity condition of the request
Selected(q, t, j) ==
    /\ DocHolds(baseConditions(q, t), j, TRUE)
    /\ PayOverlap(q, j)
    /\ IsProximity(q) =>
           /\ j.location.coordinates # NoCoords
           /\ Distance(<<q.long.v, q.lat.v>>, j.location.coordinates) <= q.maxDistance.v

\* C2: with the other filters fixed, a request with proximity parameters
\* whose radius covers every job returns the same set of jobs as the request
\* without them, on every reachable corpus.
C2_ProximityKeepsMembership ==
    (/\ res.op = "getAllJobs" /\ res.status = 200
     /\ IsProximity(res.body) /\ CoversEveryJob(res.body, jobs)
     /\ FirstPageHoldsAll(res))
    => LET plain == getAllJobs(jobs, users, now, NoProximity(res.body))
       IN /\ plain.status = 200
          /\ Range(res.items) = Range(plain.items)

\* C3: a job passes the pay filter iff (minPay absent or pay_rate_max >= minPay)
\* and (maxPay absent or pay_rate_min <= maxPay), also when its pay_rate_min
\* exceeds its pay_rate_max, and the query with the pay conditions merged in
\* still requires every other condition of the request: the query matches a
\* job iff the other conditions hold and the pay band overlaps, and the plain
\* path returns exactly those jobs.
C3_PayFilterIsOverlap ==
    res.op = "getAllJobs" =>
        /\ \A j \in jobs : \A cast \in BOOLEAN :
               Matches(buildQuery(res.body, now), j, cast)
                   <=> (DocHolds(baseConditions(res.body, now), j, cast)
                        /\ PayOverlap(res.body, j))
        /\ (res.status = 200 /\ ~IsProximity(res.body) /\ FirstPageHoldsAll(res))
               => Range(res.items)
                      = {j._id : j \in {x \in jobs :
                                           /\ DocHolds(baseConditions(res.body, now), x, TRUE)
                                           /\ PayOverlap(res.body, x)}}

\* a request with both pay bounds and another filter returned a job whose
\* pay_rate_min exceeds its pay_rate_max
C3_Witness ==
    /\ res.op = "getAllJobs" /\ res.status = 200
    /\ res.body.minPay.k = "num" /\ res.body.maxPay.k = "num"
    /\ Truthy(res.body.jobType)
    /\ \E j \in jobs : j.pay_rate_min > j.pay_rate_max /\ j._id \in Range(res.items)

\* C4: the total of a successful getAllJobs response is the number of jobs
\* that match the full predicate of the request (its filters and, on the
\* proximity path, its radius), whatever page and limit are.
C4_TotalIsMatchCount ==
    (res.op = "getAllJobs" /\ res.status = 200)
    => res.total = Cardinality({j \in jobs : Selected(res.body, now, j)})

-----------------------------------------------------------------------------
(* Properties of SpecMerge *)

Blank(v) == v = Undef \/ v = ""

BlankNumber(n) == n = NoNumber \/ n = EmptyNumber

\* every value the request gives is one the schema accepts
BodyAcceptable(body) ==
    /\ Blank(body.job_type) \/ body.job_type \in JobTypeEnum
    /\ Blank(body.status) \/ body.status \in JobStatusEnum
    /\ BlankNumber(body.pay_rate_min) \/ body.pay_rate_min >= 0
    /\ BlankNumber(body.pay_rate_max) \/ body.pay_rate_max >= 0

\* field by field: a blank field of the request keeps the stored value, any
\* other replaces it
PartialMerge(old, new, body) ==
    /\ new.title = IF Blank(body.title) THEN old.title ELSE Trim(body.title)
    /\ new.job_type = IF Blank(body.job_type) THEN old.job_type ELSE body.job_type
    /\ new.city = IF Blank(body.city) THEN old.city ELSE Trim(body.city)
    /\ new.pay_rate_min = IF BlankNumber(body.pay_rate_min) THEN old.pay_rate_min
                          ELSE body.pay_rate_min
    /\ new.pay_rate_max = IF BlankNumber(body.pay_rate_max) THEN old.pay_rate_max
                          ELSE body.pay_rate_max
    /\ new.required_skills = IF Blank(body.required_skills) THEN old.required_skills
                             ELSE SplitSkills(body.required_skills)
    /\ new.status = IF Blank(body.status) THEN old.status ELSE body.status

\* an updateJob request of the owner or an admin for the stored job id
UpdateJobReaches(id) ==
    /\ res'.op = "updateJob" /\ res'.job = id
    /\ JobExists(jobs, id)
    /\ IsOwnerOrAdmin(res'.user, findById(jobs, id))

\* C11: updateJob merges the request into the stored job field by field: an
\* undefined or empty-string field leaves the stored value unchanged, a
\* present non-empty field replaces it.
C11_PartialMergeEveryField ==
    [][\A id \in 1..MaxJobs :
          (UpdateJobReaches(id) /\ BodyAcceptable(res'.body))
          => /\ JobExists(jobs', id)
             /\ PartialMerge(findById(jobs, id), findById(jobs', id), res'.body)]_vars

\* C14: an updateJob request of the owning, non-admin employer leaves a
\* Filled or Closed status as it is.
C14_TerminalStatusSticks ==
    [][\A id \in 1..MaxJobs :
          (/\ UpdateJobReaches(id)
           /\ user_type(res'.user) # "admin"
           /\ findById(jobs, id).status \in {"Filled", "Closed"})
          => /\ JobExists(jobs', id)
             /\ findById(jobs', id).status = findById(jobs, id).status]_vars

\* C15: a job is created with employer_id = the requester and posted_at = the
\* time of creation, and no owner or admin updateJob request changes its _id,
\* employer_id or posted_at, whatever its body carries.
C15_IdentityFixedAtCreation ==
    [][/\ \A id \in 1..MaxJobs :
            (~JobExists(jobs, id) /\ JobExists(jobs', id))
            => /\ res'.op = "createJob"
               /\ findById(jobs', id).employer_id = res'.user
               /\ findById(jobs', id).posted_at = now
       /\ res'.op \in {"updateJob", "adminUpdateJob"}
            => /\ {j._id : j \in jobs'} = {j._id : j \in jobs}
               /\ \A id \in 1..MaxJobs :
                      JobExists(jobs, id)
                      => /\ findById(jobs', id).employer_id = findById(jobs, id).employer_id
                         /\ findById(jobs', id).posted_at = findById(jobs, id).posted_at]_vars

\* an update whose body named another employer_id and posted_at was applied to
\* a job posted earlier by e1
C15_Witness ==
    /\ res.op \in {"updateJob", "adminUpdateJob"} /\ res.status = 200
    /\ "employer_id" \in DOMAIN res.body /\ res.body.employer_id = "e2"
    /\ JobExists(jobs, res.job)
    /\ findById(jobs, res.job).title = "Driver"
    /\ findById(jobs, res.job).employer_id = "e1"
    /\ findById(jobs, res.job).posted_at < now

-----------------------------------------------------------------------------
(* Properties of SpecView and further properties of SpecApply *)

\* C12: GET /jobs/:id answers hasApplied = TRUE exactly when the viewer is an
\* authenticated laborer and an Application of that laborer for that job is
\* stored at the time of the request; for every other viewer it is FALSE.
C12_HasAppliedIffApplication ==
    (res.op = "getJobById" /\ res.status = 200)
    => (res.hasApplied
            <=> /\ res.user \in Laborers
                /\ HasApplication(applications, res.job, res.user))

\* an applyForJob step of a laborer who sent a resume
ApplyStep == res'.op = "applyForJob" /\ res'.resume /\ res'.user \in Laborers

\* the step is the answer of Application.findOne to the waiting request rq
FindOneAnswered(rq) ==
    /\ rq.pc = "findOne" /\ rq.user = res'.user /\ rq.job = res'.job
    /\ \/ inflight' = inflight (-) SetToBag({rq})
       \/ inflight' = (inflight (-) SetToBag({rq})) (+) Waiting("save", rq.user, rq.job)

\* the step is the save of the waiting request rq, which passed every check
SaveAnswered(rq) ==
    /\ rq.pc = "save" /\ rq.user = res'.user /\ rq.job = res'.job
    /\ inflight' = inflight (-) SetToBag({rq})

\* the checks, in the order of the claim
C13_ChecksInOrder ==
    /\ (inflight' = inflight \/ BagCardinality(inflight') > BagCardinality(inflight))
           => /\ ~JobExists(jobs, res'.job) => res'.status = 404
              /\ (JobExists(jobs, res'.job) /\ findById(jobs, res'.job).status # "Active")
                     => res'.status = 400
              /\ (JobExists(jobs, res'.job) /\ findById(jobs, res'.job).status = "Active")
                     => res'.status = 0
    /\ \A rq \in BagToSet(inflight) :
           FindOneAnswered(rq)
           => IF HasApplication(applications, rq.job, rq.user)
              THEN res'.status = 400 ELSE res'.status = 0
    /\ res'.status \in {0, 400, 404} => applications' = applications

\* C13: applyForJob by a laborer with a resume answers 404 for a missing job,
\* else 400 for a job that is not Active, else 400 when the laborer has
\* already applied, each time leaving the applications as they were; a
\* request that passed all three checks creates exactly one Pending
\* application and is answered 201.
C13_ChecksThenOneApplication ==
    [][ApplyStep =>
          /\ C13_ChecksInOrder
          /\ \A rq \in BagToSet(inflight) :
                 SaveAnswered(rq)
                 => /\ res'.status = 201
                    /\ applications' = Append(applications,
                           [status |-> "Pending", job_id |-> rq.job,
                            applicant_id |-> rq.user])]_vars

-----------------------------------------------------------------------------
(* Properties of SpecStrict *)

\* C16: in the strict revisions of createJob, a request whose geocoder call
\* throws or returns no match persists no job and ends in an error response,
\* never 201.
C16_StrictRejectsOnGeocoderFailure ==
    [][(res'.op = "createJob" /\ res'.geo \in {"throw", "empty"})
          => /\ jobs' = jobs
             /\ nextJobId' = nextJobId
             /\ ~res'.created
             /\ res'.status >= 400]_vars

\* an employer's complete request met a geocoder without a match
C16_Witness ==
    /\ res.op = "createJob" /\ res.geo = "empty"
    /\ res.user \in Employers
    /\ res.body.job_type \in JobTypeEnum
    /\ res.status = 500
    /\ ~res.created

\* the number of persisted applications for the job id
ApplicationsOf(id) == Cardinality({k \in 1..Len(applications) : applications[k].job_id = id})

-----------------------------------------------------------------------------
(* Properties of SpecPaging *)

\* some, but not all, of the three proximity parameters are given
Given(p) == p.k # "absent"

PartlyProximity(q) ==
    /\ Given(q.long) \/ Given(q.lat) \/ Given(q.maxDistance)
    /\ ~(Given(q.long) /\ Given(q.lat) /\ Given(q.maxDistance))

Coerced(p, d) == IF p.k = "num" /\ p.v > 0 THEN Num(p.v) ELSE Num(d)

\* C19: missing, non-numeric, zero and negative page and limit values fall
\* back to page = 1 and limit = 10: every request is answered as the request
\* with the coerced values is, so never with a negative skip or a non-positive
\* limit.
C19_PageLimitFallBack ==
    res.op = "getAllJobs"
    => [res EXCEPT !.body = <<>>]
           = getAllJobs(jobs, users, now,
                        [res.body EXCEPT !.page = Coerced(res.body.page, 1),
                                         !.limit = Coerced(res.body.limit, 10)])

-----------------------------------------------------------------------------
(* Properties of SpecStatus *)

\* u is the employer of the job that the stored application aid refers to
OwnsApplication(u, aid) ==
    /\ JobExists(jobs, applications[aid].job_id)
    /\ findById(jobs, applications[aid].job_id).employer_id = u

\* no stored application changes its status in the step
StatusesUnchanged ==
    \A k \in 1..Len(applications) : applications'[k].status = applications[k].status

\* a status changes only through a successful updateApplicationStatus of the
\* owning employer, and only to a status of the enum
C20_OnlyOwnerChanges ==
    \A k \in 1..Len(applications) :
        applications'[k].status # applications[k].status
        => /\ res'.op = "updateApplicationStatus" /\ res'.job = k /\ res'.status = 200
           /\ user_type(res'.user) = "employer" /\ OwnsApplication(res'.user, k)
           /\ applications'[k].status = res'.body.status
           /\ applications'[k].status \in ApplicationStatusEnum

\* C20 as stated: whoever is not the owning employer gets 403, an invalid
\* status gets 400 and a missing application 404, whatever else holds of the
\* request.
C20_AsStated ==
    [][/\ C20_OnlyOwnerChanges
       /\ res'.op = "updateApplicationStatus"
            => LET aid == res'.job
                   stored == aid \in 1..Len(applications)
               IN /\ (stored /\ ~OwnsApplication(res'.user, aid)) => res'.status = 403
                  /\ res'.body.status \notin ApplicationStatusEnum => res'.status = 400
                  /\ ~stored => res'.status = 404
                  /\ res'.status # 200 => StatusesUnchanged]_vars

\* C20: an application's status changes only through updateApplicationStatus
\* called by the employer of the application's job, and only to a status of
\* the enum; the refusals come in this order: a caller who is not an employer
\* gets 403, then a status outside the enum 400, then a missing application
\* 404, then an employer who does not own the application's job (or whose job
\* is gone) 403; every refusal leaves the stored statuses unchanged.
C20_OwnerOnlyInOrder ==
    [][/\ C20_OnlyOwnerChanges
       /\ res'.op = "updateApplicationStatus"
            => LET aid == res'.job
                   u == res'.user
               IN /\ res'.status =
                         IF user_type(u) # "employer" THEN 403
                         ELSE IF res'.body.status \notin ApplicationStatusEnum THEN 400
                         ELSE IF aid \notin 1..Len(applications) THEN 404
                         ELSE IF ~OwnsApplication(u, aid) THEN 403
                         ELSE 200
                  /\ res'.status # 200 => StatusesUnchanged]_vars

\* an employer who does not own the job was refused after the owner had
\* reviewed the application
C20_Witness ==
    /\ res.op = "updateApplicationStatus" /\ res.status = 403
    /\ res.user = "e2" /\ res.body.status = "Accepted"
    /\ res.job \in 1..Len(applications)
    /\ applications[res.job].status = "Reviewed"

-----------------------------------------------------------------------------
(* Further properties of SpecQuery: the order of the result *)

\* the orders of a set of jobs, as sequences of their ids
Orderings(S) ==
    {s \in [1..Cardinality(S) -> {j._id : j \in S}] :
        \A i, k \in 1..Cardinality(S) : i # k => s[i] # s[k]}

\* nearer jobs first on the proximity path, among equally near jobs (on the
\* plain path: among all jobs) the later posted first
InOrder(s, q) ==
    \A i, k \in 1..Len(s) :
        i < k =>
            LET a == findById(jobs, s[i])
                b == findById(jobs, s[k])
                near == <<q.long.v, q.lat.v>>
                da == IF IsProximity(q) THEN Distance(near, a.location.coordinates) ELSE 0
                db == IF IsProximity(q) THEN Distance(near, b.location.coordinates) ELSE 0
            IN /\ da <= db
               /\ da = db => a.posted_at >= b.posted_at

PositiveOrAbsent(p) == p = Absent \/ (p.k = "num" /\ p.v > 0)

\* positions (p-1)*limit to p*limit-1, counted from 0, of a sequence
Positions(s, p, limit) ==
    [i \in 1..(IF Len(s) >= p * limit THEN limit
               ELSE IF Len(s) > (p - 1) * limit THEN Len(s) - (p - 1) * limit
               ELSE 0) |-> s[(p - 1) * limit + i]]

\* C21: a successful getAllJobs response with page p and limit l holds
\* positions (p-1)*l to p*l-1 of an order of the full match set of the
\* request (the jobs that satisfy its filters and, on the proximity path, lie
\* within its radius): by distance ascending then posted_at descending on the
\* proximity path, by posted_at descending on the plain path.
C21_PageOfOrderedMatchSet ==
    (/\ res.op = "getAllJobs" /\ res.status = 200
     /\ PositiveOrAbsent(res.body.page) /\ PositiveOrAbsent(res.body.limit))
    => LET q == res.body
           p == IF q.page = Absent THEN 1 ELSE q.page.v
           l == IF q.limit = Absent THEN 10 ELSE q.limit.v
           M == {j \in jobs : Selected(q, now, j)}
       IN \E full \in Orderings(M) :
              /\ InOrder(full, q)
              /\ res.items = Positions(full, p, l)

-----------------------------------------------------------------------------
(* Further properties of SpecPaging: malformed filters *)

\* a city, skills or jobType value that is no regular expression, or an
\* employerId that is no id
Malformed(q) ==
    \/ q.city \in {"(", "["}
    \/ q.skills \in {"(", "["}
    \/ q.jobType \in {"(", "["}
    \/ Truthy(q.employerId) /\ q.employerId \notin AllUsers

\* C22: a getAllJobs request that carries a malformed filter is answered with
\* status 200 and an empty page (no items, total 0), never with an error.
C22_MalformedFailsClosed ==
    (res.op = "getAllJobs" /\ Malformed(res.body))
    => /\ res.status = 200
       /\ res.items = <<>>
       /\ res.total = 0

-----------------------------------------------------------------------------
(* Properties of SpecCity *)

\* the points the geocoder resolves a city to
Resolutions(city) == {<<g.longitude, g.latitude>> : g \in GeoMatches(city)}

\* C23: after any sequence of createJob and updateJob requests every stored
\* job has the coordinates of a geocoder resolution of its current city, or
\* the (0,0) sentinel; a job whose city was changed does not keep the
\* coordinates resolved for its previous city.
C23_CoordinatesFollowCity ==
    \A j \in jobs :
        j.location.coordinates \in Resolutions(j.city) \cup {<<0, 0>>}

-----------------------------------------------------------------------------
(* Properties of SpecProtect *)

\* C24: protect ends every request in exactly one way, exactly once: it
\* either calls next() once with req.user set to an existing user and sends
\* nothing, or never calls next() and sends a single 401 response.
C24_OneOutcomeOnce ==
    res.op = "protect" =>
        \/ /\ res.body.next = 1
           /\ res.user \in users
           /\ res.body.sent = <<>>
        \/ /\ res.body.next = 0
           /\ Len(res.body.sent) = 1
           /\ res.body.sent[1].status = 401

\* the documents a step inserts
CreatedJobs == {j \in jobs' : ~JobExists(jobs, j._id)}

CreatedApplications ==
    {applications'[i] : i \in (Len(applications) + 1)..Len(applications')}

NothingPersisted == jobs' = jobs /\ applications' = applications

\* C25: a Job is inserted only by a requester whose user_type is employer or
\* admin and an Application only by one whose user_type is laborer; a
\* createJob or applyForJob request by any other role, or with no
\* authenticated user, is answered 401 or 403 and persists nothing.
C25_Step ==
    /\ \A j \in CreatedJobs :
           /\ res'.op = "createJob" /\ res'.user = j.employer_id
           /\ j.employer_id \in users
           /\ user_type(j.employer_id) \in {"employer", "admin"}
    /\ \A a \in CreatedApplications :
           /\ a.applicant_id \in users
           /\ user_type(a.applicant_id) = "laborer"
    /\ (res'.op = "createJob" /\ res'.user \notin (Employers \cup Admins) \cap users)
           => res'.status \in {401, 403} /\ NothingPersisted
    /\ (res'.op = "applyForJob" /\ res'.user \notin Laborers \cap users)
           => res'.status \in {401, 403} /\ NothingPersisted

C25_OnlyByRole == [][C25_Step]_vars

\* a laborer's createJob request and an employer's application have been
\* refused, while a job and an application exist
C25_Witness ==
    /\ jobs # {} /\ applications # <<>>
    /\ res.status = 403
    /\ \/ res.op = "createJob" /\ res.user \in Laborers
       \/ res.op = "applyForJob" /\ res.user \in Employers

-----------------------------------------------------------------------------
(* Further properties of SpecStatus: applications and their jobs *)

\* C26: every stored application's job_id is the _id of a stored job; after
\* deleteJob (by the owner or by an admin) no application of the deleted job
\* remains.
C26_ApplicationsHaveJobs ==
    \A i \in 1..Len(applications) : JobExists(jobs, applications[i].job_id)

-----------------------------------------------------------------------------
(* Further properties of SpecStrict: the two kinds of geocoder failure *)

\* C27: in the strict createJob and updateJob a geocoder answer with no
\* match ends the request with status 400 (and not the generic
\* location-error message), an exception of the geocoder with status 500 and
\* the generic location-error message.
C27_FailureKindsDistinguished ==
    res.op \in {"createJob", "updateJob"} =>
        LET generic == {"Error processing job location.", "Error updating job location."}
        IN /\ res.geo = "empty" => res.status = 400 /\ res.message \notin generic
           /\ res.geo = "throw" => res.status = 500 /\ res.message \in generic

-----------------------------------------------------------------------------
(* Properties of SpecRating *)

\* C28: no stored rating has rater_id equal to target_id or a score outside
\* 1..5 (createRating stores a rating only if the rater differs from the
\* target and the score is from 1 to 5).
C28_RatingsValid ==
    \A i \in 1..Len(ratings) :
        /\ ratings[i].rater_id # ratings[i].target_id
        /\ ratings[i].rating.k = "num" /\ ratings[i].rating.v \in 1..5

-----------------------------------------------------------------------------
(* Further properties of SpecApply: the uploaded documents *)

\* C29: whenever applyForJob has answered a request that came with a resume
\* without creating an application, whatever the error, the handler has
\* deleted the files uploaded with that request.
C29_FilesDeletedOnFailure ==
    (/\ res.op = "applyForJob" /\ res.resume
     /\ res.status \notin {0, 401, 403}
     /\ ~res.created)
    => res.unlinked

-----------------------------------------------------------------------------
(* Properties of SpecApplicants *)

OwnsJob(u, id) == \E j \in jobs : j._id = id /\ j.employer_id = u

\* C30: GET /jobs/:jobId/applicants returns the applications of a job only
\* to the requester whose id is the job's employer_id; every other requester,
\* whatever their role, is answered 403 or 404 without application data, and
\* the 404 for a job of another employer is the response the same request
\* gets when the job does not exist.
C30_ApplicantsOnlyForOwner ==
    res.op = "getApplicantsForSpecificJob" =>
        /\ res.status = 200 =>
               /\ OwnsJob(res.user, res.job)
               /\ \A i \in 1..Len(res.items) : res.items[i].job_id = res.job
        /\ ~OwnsJob(res.user, res.job) =>
               /\ res.status \in {403, 404}
               /\ res.items = <<>>
               /\ res.body = <<>>
               /\ res = getApplicantsForSpecificJob({j \in jobs : j._id # res.job},
                                                    applications, res.user, res.job)

\* an employer asked for the applicants of another employer's job that has
\* an application, and was answered 404
C30_Witness ==
    /\ res.op = "getApplicantsForSpecificJob"
    /\ res.status = 404
    /\ user_type(res.user) = "employer"
    /\ JobExists(jobs, res.job) /\ ~OwnsJob(res.user, res.job)
    /\ \E i \in 1..Len(applications) : applications[i].job_id = res.job

====
